---------------------------- MODULE Spec2Model ----------------------------
(***************************************************************************)
(* A model of the image server of app.ts (latest variant:                  *)
(* src/unnamed/part_000, lines 137-1604): the storage directory, the       *)
(* listing and pagination functions, the access gate and the HTTP route    *)
(* handlers.                                                               *)
(*                                                                         *)
(* Strings the code takes apart (file names, the page query parameter) are *)
(* sequences of tokens: "." , "-" , "/" and atoms that contain none of     *)
(* them.  "a.tar.png" is <<"a", ".", "tar", ".", "png">>.                  *)
(***************************************************************************)
EXTENDS Integers, Sequences, FiniteSets, TLC

(***************************************************************************)
(* Bounds of the model and constants of the program.                       *)
(***************************************************************************)
\* const PAGE_SIZE = 20 as const;
PAGE_SIZE == 20

\* the largest directory the listing specification scans
MaxListing == 45

\* the clock runs over the ticks 0..MaxClock
MaxClock == 2

\* clock ticks per second of the YYYYMMDDHHmmss timestamp
TicksPerSecond == 2

\* the largest number of entries the storage directory holds in Spec
MaxFiles == 3

\* uuidv4() is drawn at most this many times
MaxUuid == 1

\* at most this many POST /upload requests pass the gate
MaxPosts == 1

\* the POST /upload requests taken where two requests meet
MaxCollidePosts == 2

\* .array("images", 4)
MAX_COUNT == 4

\* limits: { fileSize: UPLOAD_LIMIT_MB * 1024 * 1024 }, in payload units
UPLOAD_LIMIT == 2

(***************************************************************************)
(* JavaScript values: numbers (integers here), NaN and null.               *)
(***************************************************************************)
JsNum(n) == [t |-> "num", v |-> n]

NaN == [t |-> "nan", v |-> 0]

Null == [t |-> "null", v |-> 0]

\* x + k and x * k of JavaScript: NaN is absorbing
JsAdd(x, k) == IF x.t = "num" THEN JsNum(x.v + k) ELSE NaN

JsMul(x, k) == IF x.t = "num" THEN JsNum(x.v * k) ELSE NaN

\* ToIntegerOrInfinity: NaN becomes 0
ToInteger(x) == IF x.t = "num" THEN x.v ELSE 0

\* truthiness of a number | null
Truthy(x) == x.t = "num" /\ x.v # 0

Min(a, b) == IF a < b THEN a ELSE b

Range(s) == {s[i] : i \in 1..Len(s)}

Last(s) == s[Len(s)]

Max(a, b) == IF a > b THEN a ELSE b

(***************************************************************************)
(* Array.prototype.slice(start, end): a negative argument counts from the  *)
(* end of the array, both are clamped to 0..length.                        *)
(***************************************************************************)
RelativeIndex(len, x) ==
    LET i == ToInteger(x)
    IN  IF i < 0 THEN Max(len + i, 0) ELSE Min(i, len)

Slice(array, start, end) ==
    LET k     == RelativeIndex(Len(array), start)
        final == RelativeIndex(Len(array), end)
    IN  IF final > k THEN SubSeq(array, k + 1, final) ELSE <<>>


(***************************************************************************)
(* function paginate(array, size, index)                                   *)
(*   return array.slice((index - 1) * size, index * size);                 *)
(***************************************************************************)
\* paginate with the page index taken as 0-based
paginateZeroBased(array, size, index) ==
    Slice(array, JsMul(index, size), JsMul(JsAdd(index, 1), size))

paginate(array, size, index) ==
    Slice(array, JsMul(JsAdd(index, -1), size), JsMul(index, size))

(***************************************************************************)
(* parseInt(string) with no radix.  The string is a sequence of one-       *)
(* character strings.  Leading white space is skipped, a sign is read, a   *)
(* "0x" prefix selects radix 16, and the longest prefix of digits is the   *)
(* value; no digit at all gives NaN.                                       *)
(***************************************************************************)
DigitValue(c) ==
    CASE c = "0" -> 0 [] c = "1" -> 1 [] c = "2" -> 2 [] c = "3" -> 3
      [] c = "4" -> 4 [] c = "5" -> 5 [] c = "6" -> 6 [] c = "7" -> 7
      [] c = "8" -> 8 [] c = "9" -> 9
      [] c \in {"a", "A"} -> 10 [] c \in {"b", "B"} -> 11
      [] c \in {"c", "C"} -> 12 [] c \in {"d", "D"} -> 13
      [] c \in {"e", "E"} -> 14 [] c \in {"f", "F"} -> 15
      [] OTHER -> 99

RECURSIVE TrimStart(_)
TrimStart(s) ==
    IF s # <<>> /\ Head(s) = " " THEN TrimStart(Tail(s)) ELSE s

\* the value of the longest prefix of radix-R digits of s, read after acc;
\* seen tells whether a digit was read
RECURSIVE ReadDigits(_, _, _, _)
ReadDigits(s, R, acc, seen) ==
    IF s # <<>> /\ DigitValue(Head(s)) < R
    THEN ReadDigits(Tail(s), R, acc * R + DigitValue(Head(s)), TRUE)
    ELSE [value |-> acc, seen |-> seen]

parseInt(string) ==
    LET S      == TrimStart(string)
        signed == S # <<>> /\ Head(S) \in {"+", "-"}
        sign   == IF S # <<>> /\ Head(S) = "-" THEN -1 ELSE 1
        U      == IF signed THEN Tail(S) ELSE S
        hex    == Len(U) >= 2 /\ U[1] = "0" /\ U[2] \in {"x", "X"}
        Z      == IF hex THEN Tail(Tail(U)) ELSE U
        read   == ReadDigits(Z, IF hex THEN 16 ELSE 10, 0, FALSE)
    IN  IF read.seen THEN JsNum(sign * read.value) ELSE NaN

(***************************************************************************)
(* The page query parameter as express hands it over: undefined when it is *)
(* missing, a string, or an array when it is given more than once.         *)
(* const index = page && typeof page === "string" ? parseInt(page) : 1     *)
(***************************************************************************)
PageMissing == [t |-> "undefined", s |-> <<>>]

PageArray == [t |-> "array", s |-> <<>>]

PageString(s) == [t |-> "string", s |-> s]

PageIndex(page) ==
    IF page.t = "string" /\ page.s # <<>> THEN parseInt(page.s) ELSE JsNum(1)

(***************************************************************************)
(* The pagination object the listing routes build.                         *)
(***************************************************************************)
Pagination(files, index) ==
    LET paginated     == paginate(files, PAGE_SIZE, index)
        prevPaginated == paginate(files, PAGE_SIZE, JsAdd(index, -1))
        nextPaginated == paginate(files, PAGE_SIZE, JsAdd(index, 1))
    IN  [index |-> index,
         size  |-> PAGE_SIZE,
         prev  |-> IF Len(prevPaginated) # 0 THEN JsAdd(index, -1) ELSE Null,
         next  |-> IF Len(nextPaginated) # 0 THEN JsAdd(index, 1) ELSE Null,
         files |-> paginated]

\* what IndexPage / DeletePage / ImagePage render of the provider: the file
\* count, the images of the page, and a link for a truthy prev and next
RenderListing(files, pagination) ==
    [count    |-> Len(files),
     images   |-> pagination.files,
     prevLink |-> IF Truthy(pagination.prev) THEN pagination.prev ELSE Null,
     nextLink |-> IF Truthy(pagination.next) THEN pagination.next ELSE Null]

(***************************************************************************)
(* File names.  ALLOWED_FORMATS_REGEX =                                    *)
(*   /\.(gif|jpe?g|tiff?|png|webp|bmp|svg)$/i                              *)
(***************************************************************************)
ALLOWED_FORMATS_EXTS ==
    {"gif", "jpg", "jpeg", "tif", "tiff", "png", "webp", "bmp", "svg"}

\* the /i flag, on the atoms the model uses
ToLowerCase(atom) ==
    CASE atom \in {"PNG", "Png"} -> "png"
      [] atom \in {"JPG", "Jpg"} -> "jpg"
      [] atom = "JPEG" -> "jpeg"
      [] atom = "GIF" -> "gif"
      [] atom = "SVG" -> "svg"
      [] atom = "EXE" -> "exe"
      [] OTHER -> atom

\* the regular expression without its i flag
ALLOWED_FORMATS_REGEX_testCaseSensitive(fileName) ==
    /\ Len(fileName) >= 2
    /\ fileName[Len(fileName) - 1] = "."
    /\ fileName[Len(fileName)] \in ALLOWED_FORMATS_EXTS

ALLOWED_FORMATS_REGEX_test(fileName) ==
    /\ Len(fileName) >= 2
    /\ fileName[Len(fileName) - 1] = "."
    /\ ToLowerCase(fileName[Len(fileName)]) \in ALLOWED_FORMATS_EXTS

(***************************************************************************)
(* function readSyncImageFiles(): readdirSync, filter by the regular       *)
(* expression, stat each name for its mtime, sort by descending time       *)
(* (Array.prototype.sort is stable), project to the names.  A directory    *)
(* is the sequence of its entries in readdir order.                        *)
(***************************************************************************)
\* sorted with x put after every element whose time is not smaller
InsertByTime(sorted, x) ==
    LET k == Cardinality({i \in 1..Len(sorted) : sorted[i].time >= x.time})
    IN  SubSeq(sorted, 1, k) \o <<x>> \o SubSeq(sorted, k + 1, Len(sorted))

\* the elements of s after the first Len(sorted) put into sorted, in order
RECURSIVE SortRest(_, _)
SortRest(sorted, s) ==
    IF Len(sorted) = Len(s) THEN sorted
    ELSE SortRest(InsertByTime(sorted, s[Len(sorted) + 1]), s)

SortByTimeDesc(s) == SortRest(<<>>, s)

HasAllowedFormat(entry) == ALLOWED_FORMATS_REGEX_test(entry.name)

\* readSyncImageFiles without the sort
readSyncImageFilesUnsorted(dir) ==
    LET filtered == SelectSeq(dir, HasAllowedFormat)
    IN  [i \in 1..Len(filtered) |-> filtered[i].name]

readSyncImageFiles(dir) ==
    LET filtered == SelectSeq(dir, HasAllowedFormat)
        timed    == [i \in 1..Len(filtered) |->
                        [fileName |-> filtered[i].name,
                         time     |-> filtered[i].mtime]]
        sorted   == SortByTimeDesc(timed)
    IN  [i \in 1..Len(sorted) |-> sorted[i].fileName]

(***************************************************************************)
(* The access gate.  compare is tsscmp: true exactly for equal strings.    *)
(* The configured pair stands for the ADMIN_USER / ADMIN_PASS of .env.     *)
(***************************************************************************)
ADMIN_USER == <<"h", "o", "g", "e">>

ADMIN_PASS == <<"f", "o", "o">>

SITE_BASEURL == <<"https://foo.com">>

compare(a, b) == a = b

\* checkAuth without the password comparison
checkAuthUserOnly(user, pass) == compare(user, ADMIN_USER)

checkAuth(user, pass) ==
    LET valid0 == TRUE
        valid1 == compare(user, ADMIN_USER) /\ valid0
        valid2 == compare(pass, ADMIN_PASS) /\ valid1
    IN  valid2

\* the calls made in evaluating left && right: those of left, and those
\* of right when left is truthy
AndCalls(leftCalls, leftValue, rightCalls) ==
    IF leftValue THEN leftCalls \o rightCalls ELSE leftCalls

\* a call of tsscmp's compare
Call(a, b) == [callee |-> "compare", a |-> a, b |-> b]

\* checkAuth with the operands of && exchanged: valid && compare(...)
checkAuthCallsShortCircuit(user, pass) ==
    LET valid1 == compare(user, ADMIN_USER)
        calls1 == AndCalls(<<>>, TRUE, <<Call(user, ADMIN_USER)>>)
        calls2 == AndCalls(<<>>, valid1, <<Call(pass, ADMIN_PASS)>>)
    IN  calls1 \o calls2

\* the calls checkAuth makes, in order: compare(...) is the left operand
\* of each &&, the variable valid the right one
checkAuthCalls(user, pass) ==
    LET calls1 == AndCalls(<<Call(user, ADMIN_USER)>>,
                           compare(user, ADMIN_USER), <<>>)
        calls2 == AndCalls(<<Call(pass, ADMIN_PASS)>>,
                           compare(pass, ADMIN_PASS), <<>>)
    IN  calls1 \o calls2

\* auth(req): undefined without a usable Authorization header
NoCredentials == [present |-> FALSE, name |-> <<>>, pass |-> <<>>]

Credentials(name, pass) == [present |-> TRUE, name |-> name, pass |-> pass]

\* the gate without the !credentials test
DeniedWhenPresent(credentials) ==
    credentials.present /\ ~checkAuth(credentials.name, credentials.pass)

\* if (!credentials || !checkAuth(credentials.name, credentials.pass))
Denied(credentials) ==
    ~credentials.present \/ ~checkAuth(credentials.name, credentials.pass)

(***************************************************************************)
(* moment(Date.now()).format("YYYYMMDDHHmmss"): the clock's tick cut to    *)
(* its second, written in digits.                                          *)
(***************************************************************************)
DigitChars == <<"0", "1", "2", "3", "4", "5", "6", "7", "8", "9">>

\* a timestamp that tells the ticks of a second apart
FormatTicks(now) ==
    <<"202401010000",
      DigitChars[((now \div 10) % 6) + 1],
      DigitChars[(now % 10) + 1], ".", DigitChars[(now % TicksPerSecond) + 1]>>

Format(now) ==
    LET sec == now \div TicksPerSecond
    IN  <<"202401010000",
          DigitChars[((sec \div 10) % 6) + 1],
          DigitChars[(sec % 10) + 1]>>

(***************************************************************************)
(* storage.filename:                                                       *)
(*   file.originalname.split(".")[0] + "-" + <timestamp>                   *)
(*     + file.originalname.match(/\..*$/)![0]                              *)
(* The match is null for a name without a "."; null![0] throws.            *)
(***************************************************************************)
\* the position of the first "." of a name, 0 when it has none
FirstDot(name) ==
    IF \E i \in 1..Len(name) : name[i] = "."
    THEN CHOOSE i \in 1..Len(name) :
            /\ name[i] = "."
            /\ \A j \in 1..(i - 1) : name[j] # "."
    ELSE 0

FilenameThrows(originalname) == FirstDot(originalname) = 0

\* filename without the extension of the original name
filenameWithoutExtension(originalname, now) ==
    SubSeq(originalname, 1, FirstDot(originalname) - 1)
      \o <<"-">> \o Format(now)

filename(originalname, now) ==
    LET d == FirstDot(originalname)
    IN  SubSeq(originalname, 1, d - 1)
          \o <<"-">> \o Format(now)
          \o SubSeq(originalname, d, Len(originalname))

\* fileFilter of the uploader: the MIME types it lets through
ALLOWED_MIMETYPES ==
    {"image/png", "image/jpg", "image/jpeg", "image/gif", "image/webp",
     "image/bmp", "image/tiff", "image/svg+xml"}

fileFilter(file) == file.mimetype \in ALLOWED_MIMETYPES

\* const ALLOWED_FORMATS = ".png .jpg .jpeg .gif .webp .bmp .tiff .svg"
ALLOWED_FORMATS == ".png .jpg .jpeg .gif .webp .bmp .tiff .svg"

(***************************************************************************)
(* The file system.  A directory is the sequence of its entries in readdir *)
(* order; an entry is a regular file or a subdirectory.                    *)
(***************************************************************************)
File(name, mtime, data) ==
    [name |-> name, kind |-> "file", mtime |-> mtime, data |-> data]

Dir(name, mtime) ==
    [name |-> name, kind |-> "dir", mtime |-> mtime, data |-> "-"]

Names(dir) == {dir[i].name : i \in 1..Len(dir)}

IndexOf(dir, name) == CHOOSE i \in 1..Len(dir) : dir[i].name = name

Entry(dir, name) == dir[IndexOf(dir, name)]

\* an unlink that takes the entries after the name with it
RemoveEntryAndRest(dir, name) ==
    IF name \in Names(dir) THEN SubSeq(dir, 1, IndexOf(dir, name) - 1) ELSE dir

RemoveEntry(dir, name) ==
    IF name \in Names(dir)
    THEN LET i == IndexOf(dir, name)
         IN  SubSeq(dir, 1, i - 1) \o SubSeq(dir, i + 1, Len(dir))
    ELSE dir

RECURSIVE RemoveEntries(_, _)
RemoveEntries(dir, names) ==
    IF names = <<>> THEN dir
    ELSE RemoveEntries(RemoveEntry(dir, Head(names)), Tail(names))

\* open(path, "w") and the writes: an existing file keeps its place in the
\* directory and gets the new content and time; a new one is put at pos
WriteEntry(dir, name, mtime, data, pos) ==
    IF name \in Names(dir)
    THEN [dir EXCEPT ![IndexOf(dir, name)] = File(name, mtime, data)]
    ELSE SubSeq(dir, 1, pos - 1) \o <<File(name, mtime, data)>>
           \o SubSeq(dir, pos, Len(dir))

\* where a new entry may land in readdir order
Positions(dir, name) ==
    IF name \in Names(dir) THEN {1} ELSE 1..(Len(dir) + 1)

(***************************************************************************)
(* path.resolve(__dirname, "storage", fileName), as the components below   *)
(* __dirname.  A component ".." leaves the directory, "." and "" stay.     *)
(***************************************************************************)
\* the components of a path: its tokens between the "/" tokens
RECURSIVE Components(_, _)
Components(path, current) ==
    IF path = <<>> THEN <<current>>
    ELSE IF Head(path) = "/"
         THEN <<current>> \o Components(Tail(path), <<>>)
         ELSE Components(Tail(path), Append(current, Head(path)))

STORAGE == <<"storage">>

\* above __dirname the model knows no file
ABOVE == <<"..">>

RECURSIVE Walk(_, _)
Walk(stack, comps) ==
    IF comps = <<>> THEN stack
    ELSE LET c == Head(comps)
         IN  IF c = <<>> \/ c = <<".">> THEN Walk(stack, Tail(comps))
             ELSE IF c = <<".", ".">>
                  THEN IF stack = <<>> \/ stack[Len(stack)] = ABOVE
                       THEN Walk(Append(stack, ABOVE), Tail(comps))
                       ELSE Walk(SubSeq(stack, 1, Len(stack) - 1), Tail(comps))
                  ELSE Walk(Append(stack, c), Tail(comps))

resolve(fileName) ==
    IF fileName # <<>> /\ Head(fileName) = "/"
    THEN <<ABOVE>> \o Walk(<<>>, Components(fileName, <<>>))
    ELSE Walk(<<STORAGE>>, Components(fileName, <<>>))

\* fs.existsSync on a resolved path, in a storage directory dir beside the
\* files app of __dirname
existsSync(path, dir, app) ==
    \/ path = <<>>
    \/ path = <<STORAGE>>
    \/ Len(path) = 2 /\ path[1] = STORAGE /\ path[2] \in Names(dir)
    \/ Len(path) = 1 /\ path[1] \in app

\* fs.unlinkSync throws on a directory
IsDirectory(path, dir) ==
    \/ path = <<>>
    \/ path = <<STORAGE>>
    \/ /\ Len(path) = 2 /\ path[1] = STORAGE /\ path[2] \in Names(dir)
       /\ Entry(dir, path[2]).kind = "dir"

(***************************************************************************)
(* The state of the server process and of the directory it serves.         *)
(***************************************************************************)
VARIABLES
    storage,    \* __dirname/storage: its entries in readdir order
    appdir,     \* the names of the files of __dirname beside storage
    clock,      \* Date.now(), in ticks
    upload,     \* the POST /upload request multer is working on
    fetch,      \* the PUT /url2image request waiting for axios
    writers,    \* the write streams PUT /url2image has opened
    uuids,      \* how many uuidv4() were drawn
    posts,      \* how many POST /upload requests passed the gate
    alive,      \* the process runs (no uncaught exception yet)
    resp,       \* the last response sent
    env,        \* process.env: the four variables the server reads
    listening,  \* app.listen has been called
    scan        \* the readSyncImageFiles call between readdir and stat

vars ==
    <<storage, appdir, clock, upload, fetch, writers, uuids, posts, alive,
      resp, env, listening, scan>>

\* the variables of process.env the server reads
EnvNames == {"SITE_BASEURL", "ADMIN_USER", "ADMIN_PASS", "UPLOAD_LIMIT_MB"}

\* a variable holds a value, the empty string, or is not in process.env
EnvValues == {"value", "empty", "undefined"}

\* !process.env.X
Falsy(v) == v \in {"empty", "undefined"}

EnvAllSet == [n \in EnvNames |-> "value"]

\* no scan of the storage directory is under way
NoScan ==
    [active |-> FALSE, route |-> "none", page |-> PageMissing, names |-> <<>>]

\* a callback of the server runs on the main thread: the process is up and
\* listening, no synchronous scan is under way, and the callback leaves
\* the environment as it is
Handler ==
    /\ alive
    /\ listening
    /\ ~scan.active
    /\ UNCHANGED <<env, listening, scan>>

\* a file operation of the thread pool completes, whatever the main thread
\* is at
Background ==
    /\ alive
    /\ UNCHANGED <<env, listening, scan>>

NoUpload ==
    [active |-> FALSE, creds |-> NoCredentials, files |-> <<>>, next |-> 1,
     uploaded |-> <<>>, error |-> "none"]

NoFetch == [active |-> FALSE, creds |-> NoCredentials, url |-> <<>>]

\* a response: the route and the Authorization of its request, the status,
\* whether it carries the WWW-Authenticate challenge, and its body
NoResponse ==
    [route |-> "none", creds |-> NoCredentials, status |-> 0,
     challenge |-> FALSE, body |-> <<>>]

Response(route, status, body) ==
    [route |-> route, creds |-> NoCredentials, status |-> status,
     challenge |-> FALSE, body |-> body]

\* the response to a request that carried credentials
To(credentials, response) == [response EXCEPT !.creds = credentials]

\* res.status(401); res.setHeader("WWW-Authenticate", 'Basic realm=...');
\* res.end("Access denied")
AccessDenied(route) ==
    [route |-> route, creds |-> NoCredentials, status |-> 401,
     challenge |-> TRUE, body |-> "Access denied"]

\* next() with no later route for the method: express answers 404
NotHandled(route) == Response(route, 404, "Cannot handle")

(***************************************************************************)
(* What requests carry.                                                    *)
(***************************************************************************)
QMissing == [t |-> "undefined", s |-> <<>>]

QArray == [t |-> "array", s |-> <<>>]

QString(s) == [t |-> "string", s |-> s]

\* !x || typeof x !== "string"
NotAString(q) == q.t # "string" \/ q.s = <<>>

\* the credentials requests carry: none, the configured pair, and pairs
\* one character away from it in one field
CredentialInputs ==
    { NoCredentials,
      Credentials(ADMIN_USER, ADMIN_PASS),
      Credentials(ADMIN_USER, <<"f", "o", "x">>),
      Credentials(<<"h", "o", "g">>, ADMIN_PASS) }

\* the credentials the upload route is asked with beside the other routes
FewCredentialInputs == { NoCredentials, Credentials(ADMIN_USER, ADMIN_PASS) }

PageInputs ==
    { PageMissing, PageArray, PageString(<<>>),
      PageString(<<"1">>), PageString(<<"2">>), PageString(<<"3">>),
      PageString(<<"4">>), PageString(<<"0">>),
      PageString(<<"-", "1">>), PageString(<<"-", "2">>),
      PageString(<<"a", "b", "c">>), PageString(<<"2", "x">>),
      PageString(<<" ", "2">>), PageString(<<"+", "3">>),
      PageString(<<"0", "x", "2">>), PageString(<<"1", "0">>) }

\* the page values the server specification asks for
FewPageInputs ==
    { PageMissing, PageString(<<"2">>), PageString(<<"a", "b", "c">>) }

Part(originalname, mimetype, size, data) ==
    [fieldname |-> "images", originalname |-> originalname,
     mimetype |-> mimetype, size |-> size, data |-> data]

PngPart == Part(<<"a", ".", "png">>, "image/png", 1, "png-1")

PngPart2 == Part(<<"a", ".", "png">>, "image/png", 1, "png-2")

DotsPart == Part(<<"a", ".", "tar", ".", "png">>, "image/png", 1, "png-4")

ExePart == Part(<<"a", ".", "exe">>, "application/x-msdownload", 1, "exe-1")

ExeAsPngPart == Part(<<"a", ".", "exe">>, "image/png", 1, "exe-2")

PngAsTextPart == Part(<<"c", ".", "png">>, "text/plain", 1, "png-5")

BigPart == Part(<<"a", ".", "png">>, "image/png", UPLOAD_LIMIT + 1, "png-6")

NoDotPart == Part(<<"README">>, "image/png", 1, "png-7")

OtherFieldPart == [PngPart EXCEPT !.fieldname = "file"]

Parts ==
    { PngPart, PngPart2, DotsPart, ExePart, ExeAsPngPart,
      PngAsTextPart, BigPart, NoDotPart, OtherFieldPart }

\* the multipart bodies: no file, one file, a .png and another file, and one
\* file more than .array("images", 4) takes
UploadInputs ==
    {<<>>} \cup {<<p>> : p \in Parts}
      \cup {<<PngPart, p>> : p \in {PngPart2, ExePart, BigPart}}
      \cup {[i \in 1..(MAX_COUNT + 1) |-> PngPart]}

\* the bodies the gated routes are asked with together
FewUploadInputs == { <<>>, <<PngPart>>, <<ExePart>>, <<NoDotPart>> }

\* the fileName values of DELETE /delete beside the names in storage
DeleteInputs ==
    { QMissing, QArray, QString(<<>>),
      QString(<<"n", ".", "png">>),
      QString(<<".">>),
      QString(<<".", ".", "/", "app", ".", "js">>),
      QString(<<".", ".", "/", "storage", "/", "x", ".", "png">>) }

UrlInputs == { QMissing, QString(<<"http://remote/img">>) }

\* the content-type header of the remote response; <<>> when it has none
ContentTypes ==
    { <<"image", "/", "png">>, <<"image", "/", "jpeg">>,
      <<"image", "/", "svg+xml">>, <<"text", "/", "html">>, <<>> }

\* the names GET /i/:fileName and the static route are asked for
ViewInputs ==
    { <<"x", ".", "png">>, <<"n", ".", "PNG">>, <<"notes", ".", "txt">>,
      <<"old">>, <<"a", ".", "exe">>, <<"scan", ".", "tif">>, <<"png">>,
      <<"a", ".", "png", ".", "exe">>, <<"a", ".", "exe", ".", "svg">> }

(***************************************************************************)
(* The directories the server may be started on.                           *)
(***************************************************************************)
InitialDirs ==
    { <<>>,
      <<File(<<"x", ".", "png">>, 0, "old-x")>>,
      <<File(<<"notes", ".", "txt">>, 0, "notes"),
        File(<<"x", ".", "png">>, 0, "old-x")>>,
      <<Dir(<<"old">>, 0)>> }

\* directories with names of every kind the scan tells apart: upper-case
\* and two-letter-variant extensions, a directory with an image name, a
\* name that is an extension and nothing else, equal and unordered times
ViewDirs ==
    { <<File(<<"x", ".", "png">>, 0, "old-x"),
        File(<<"scan", ".", "tif">>, 1, "scan"),
        File(<<"n", ".", "PNG">>, 1, "n"),
        File(<<"notes", ".", "txt">>, 2, "notes")>>,
      <<Dir(<<"old", ".", "gif">>, 2),
        File(<<"png">>, 2, "p"),
        File(<<"a", ".", "png", ".", "exe">>, 2, "e"),
        File(<<"b", ".", "jpeg">>, 0, "b"),
        File(<<"c", ".", "JPG">>, 2, "c")>>,
      <<File(<<"t", ".", "tiff">>, 1, "t"),
        File(<<"w", ".", "webp">>, 1, "w"),
        File(<<"s", ".", "SVG">>, 0, "s"),
        File(<<"m", ".", "bmp">>, 1, "m")>> }

Digits2(n) == <<DigitChars[((n \div 10) % 10) + 1], DigitChars[(n % 10) + 1]>>

\* a directory of n images img01.png .. : every third one has the time of
\* the one before it, the others are newer than all before them
ListingDir(n) ==
    [i \in 1..n |->
        File(<<"img">> \o Digits2(i) \o <<".", "png">>,
             IF i % 3 = 0 THEN i - 1 ELSE i, "img")]

Init ==
    /\ storage \in InitialDirs
    /\ appdir = {<<"app", ".", "js">>}
    /\ clock = 0
    /\ upload = NoUpload
    /\ fetch = NoFetch
    /\ writers = {}
    /\ uuids = 0
    /\ posts = 0
    /\ alive = TRUE
    /\ env = EnvAllSet
    /\ listening = TRUE
    /\ scan = NoScan
    /\ resp = NoResponse

InitListing ==
    /\ \E n \in 0..MaxListing : storage = ListingDir(n)
    /\ appdir = {<<"app", ".", "js">>}
    /\ clock = MaxListing
    /\ upload = NoUpload
    /\ fetch = NoFetch
    /\ writers = {}
    /\ uuids = 0
    /\ posts = 0
    /\ alive = TRUE
    /\ env = EnvAllSet
    /\ listening = TRUE
    /\ scan = NoScan
    /\ resp = NoResponse

InitView ==
    /\ storage \in InitialDirs \cup ViewDirs
    /\ appdir = {<<"app", ".", "js">>}
    /\ clock = 0
    /\ upload = NoUpload
    /\ fetch = NoFetch
    /\ writers = {}
    /\ uuids = 0
    /\ posts = 0
    /\ alive = TRUE
    /\ env = EnvAllSet
    /\ listening = TRUE
    /\ scan = NoScan
    /\ resp = NoResponse

\* the process before it has read its environment
InitStart ==
    /\ storage \in InitialDirs
    /\ appdir = {<<"app", ".", "js">>}
    /\ clock = 0
    /\ upload = NoUpload
    /\ fetch = NoFetch
    /\ writers = {}
    /\ uuids = 0
    /\ posts = 0
    /\ alive = TRUE
    /\ env \in [EnvNames -> EnvValues]
    /\ listening = FALSE
    /\ scan = NoScan
    /\ resp = NoResponse

(***************************************************************************)
(* The start of the process: the four checks of process.env, each a throw  *)
(* at the top of the module, then the routes, then app.listen.             *)
(***************************************************************************)
\* the checks without the one of UPLOAD_LIMIT_MB
StartupThrowsWithoutLimit(e) ==
    \/ Falsy(e["SITE_BASEURL"])
    \/ Falsy(e["ADMIN_USER"])
    \/ Falsy(e["ADMIN_PASS"])

\* if (!process.env.X) throw new Error("X is not set")
StartupThrows(e) ==
    \/ Falsy(e["SITE_BASEURL"])
    \/ Falsy(e["ADMIN_USER"])
    \/ Falsy(e["ADMIN_PASS"])
    \/ Falsy(e["UPLOAD_LIMIT_MB"])

Startup ==
    /\ alive
    /\ ~listening
    /\ IF StartupThrows(env)
       THEN alive' = FALSE /\ UNCHANGED listening
       ELSE listening' = TRUE /\ UNCHANGED alive
    /\ UNCHANGED <<storage, appdir, clock, upload, fetch, writers, uuids,
                   posts, resp, env, scan>>

(***************************************************************************)
(* The listing routes.                                                     *)
(***************************************************************************)
\* the body of app.get("/") and app.get("/delete")
\* the body taken from the listing sent last, when there is one
ListingBodyCached(dir, page) ==
    IF resp.route \in {"GET /", "GET /delete"}
    THEN resp.body
    ELSE LET files      == readSyncImageFiles(dir)
             pagination == Pagination(files, PageIndex(page))
         IN  [files |-> files, pagination |-> pagination,
              page |-> RenderListing(files, pagination)]

ListingBody(dir, page) ==
    LET files      == readSyncImageFiles(dir)
        index      == PageIndex(page)
        pagination == Pagination(files, index)
    IN  [files |-> files, pagination |-> pagination,
         page |-> RenderListing(files, pagination)]

\* app.get("/", ...)
GetIndex(page) ==
    /\ Handler
    /\ resp' = Response("GET /", 200, ListingBody(storage, page))
    /\ UNCHANGED <<storage, appdir, clock, upload, fetch, writers, uuids,
                   posts, alive>>

\* a page of the delete form that removes the newest file it lists
GetDeleteUnlinks(page) ==
    /\ Handler
    /\ resp' = Response("GET /delete", 200, ListingBody(storage, page))
    /\ storage' = IF readSyncImageFiles(storage) = <<>>
                  THEN storage
                  ELSE RemoveEntry(storage, Head(readSyncImageFiles(storage)))
    /\ UNCHANGED <<appdir, clock, upload, fetch, writers, uuids, posts,
                   alive>>

\* app.get("/delete", ...)
GetDelete(page) ==
    /\ Handler
    /\ resp' = Response("GET /delete", 200, ListingBody(storage, page))
    /\ UNCHANGED <<storage, appdir, clock, upload, fetch, writers, uuids,
                   posts, alive>>

\* readSyncImageFiles() up to its filter: readdirSync has returned the names
\* and no file was stat-ed yet.  The handler keeps the main thread until it
\* has answered; the thread pool goes on with the unlinks and writes it was
\* given before.
ScanRead(route, page) ==
    /\ alive
    /\ listening
    /\ ~scan.active
    /\ scan' = [active |-> TRUE, route |-> route, page |-> page,
                names |-> LET filtered == SelectSeq(storage, HasAllowedFormat)
                          IN  [i \in 1..Len(filtered) |-> filtered[i].name]]
    /\ UNCHANGED <<storage, appdir, clock, upload, fetch, writers, uuids,
                   posts, alive, resp, env, listening>>

\* the rest of readSyncImageFiles() and of the handler: statSync on every
\* name read, which throws for a name that is gone, the sort and the page
ScanStat ==
    /\ alive
    /\ listening
    /\ scan.active
    /\ resp' =
         IF \E i \in 1..Len(scan.names) : scan.names[i] \notin Names(storage)
         THEN Response(scan.route, 500, [error |-> "ENOENT"])
         ELSE LET timed == [i \in 1..Len(scan.names) |->
                             [fileName |-> scan.names[i],
                              time |-> Entry(storage, scan.names[i]).mtime]]
                  sorted == SortByTimeDesc(timed)
                  files == [i \in 1..Len(sorted) |-> sorted[i].fileName]
                  pagination == Pagination(files, PageIndex(scan.page))
              IN  Response(scan.route, 200,
                           [files |-> files, pagination |-> pagination,
                            page |-> RenderListing(files, pagination)])
    /\ scan' = NoScan
    /\ UNCHANGED <<storage, appdir, clock, upload, fetch, writers, uuids,
                   posts, alive, env, listening>>

\* app.get("/upload", ...): res.status(201); res.send(UploadPage(files))
GetUpload ==
    /\ Handler
    /\ resp' = Response("GET /upload", 201,
                        [count |-> Len(readSyncImageFiles(storage))])
    /\ UNCHANGED <<storage, appdir, clock, upload, fetch, writers, uuids,
                   posts, alive>>

\* app.get("/url2image", ...)
GetUrl2image ==
    /\ Handler
    /\ resp' = Response("GET /url2image", 200,
                        [count |-> Len(readSyncImageFiles(storage))])
    /\ UNCHANGED <<storage, appdir, clock, upload, fetch, writers, uuids,
                   posts, alive>>

\* app.get("/i/:fileName", ...)
GetImage(fileName) ==
    /\ Handler
    /\ resp' =
         IF ~ALLOWED_FORMATS_REGEX_test(fileName)
         THEN Response("GET /i", 415, [error |-> "Unsupported Media Type"])
         ELSE Response("GET /i", 200,
                       [fileName |-> fileName,
                        listing |-> ListingBody(storage, PageMissing)])
    /\ UNCHANGED <<storage, appdir, clock, upload, fetch, writers, uuids,
                   posts, alive>>

\* app.use(express.static(storage, ...)): a regular file is sent with its
\* cache headers, a directory is redirected to, anything else is not found
GetStatic(fileName) ==
    /\ Handler
    /\ resp' =
         IF fileName \in Names(storage)
         THEN IF Entry(storage, fileName).kind = "file"
              THEN Response("GET static", 200, Entry(storage, fileName).data)
              ELSE Response("GET static", 301, "/")
         ELSE NotHandled("GET static")
    /\ UNCHANGED <<storage, appdir, clock, upload, fetch, writers, uuids,
                   posts, alive>>

(***************************************************************************)
(* app.delete("/delete", ...)                                              *)
(***************************************************************************)
\* a handler that removes the file first and looks at the credentials after
DeleteUnlinkFirst(credentials, fileName) ==
    /\ Handler
    /\ LET path == IF NotAString(fileName) THEN <<>> ELSE resolve(fileName.s)
           found == /\ ~NotAString(fileName)
                    /\ existsSync(path, storage, appdir)
                    /\ ~IsDirectory(path, storage)
       IN  /\ IF found /\ path[1] = STORAGE
              THEN storage' = RemoveEntry(storage, path[2])
              ELSE UNCHANGED storage
           /\ IF found /\ path[1] # STORAGE
              THEN appdir' = appdir \ {path[1]}
              ELSE UNCHANGED appdir
           /\ resp' = To(credentials,
                         IF Denied(credentials)
                         THEN AccessDenied("DELETE /delete")
                         ELSE IF NotAString(fileName)
                         THEN NotHandled("DELETE /delete")
                         ELSE IF found
                         THEN Response("DELETE /delete", 204, "")
                         ELSE Response("DELETE /delete", 404, ""))
    /\ UNCHANGED <<clock, upload, fetch, writers, uuids, posts, alive>>

Delete(credentials, fileName) ==
    /\ Handler
    /\ IF Denied(credentials)
       THEN /\ resp' = To(credentials, AccessDenied("DELETE /delete"))
            /\ UNCHANGED <<storage, appdir>>
       ELSE IF NotAString(fileName)
       THEN \* return next()
            /\ resp' = To(credentials, NotHandled("DELETE /delete"))
            /\ UNCHANGED <<storage, appdir>>
       ELSE LET path == resolve(fileName.s)
            IN  IF ~existsSync(path, storage, appdir)
                THEN /\ resp' = To(credentials,
                                   Response("DELETE /delete", 404, ""))
                     /\ UNCHANGED <<storage, appdir>>
                ELSE IF IsDirectory(path, storage)
                THEN \* unlinkSync throws: the catch sends 500, and the
                     \* status(204) and end() after it come too late
                     /\ resp' = To(credentials,
                                   Response("DELETE /delete", 500,
                                            [error |-> "EISDIR",
                                             endedAgain |-> TRUE]))
                     /\ UNCHANGED <<storage, appdir>>
                ELSE /\ resp' = To(credentials,
                                   Response("DELETE /delete", 204, ""))
                     /\ IF path[1] = STORAGE
                        THEN /\ storage' = RemoveEntry(storage, path[2])
                             /\ UNCHANGED appdir
                        ELSE /\ appdir' = appdir \ {path[1]}
                             /\ UNCHANGED storage
    /\ UNCHANGED <<clock, upload, fetch, writers, uuids, posts, alive>>

(***************************************************************************)
(* app.post("/upload", ...): the access gate, then multer's uploader.      *)
(* multer takes the parts of the body one after the other, between the     *)
(* other requests of the process, and calls back once.                     *)
(***************************************************************************)
PostUpload(credentials, files) ==
    /\ Handler
    /\ IF Denied(credentials)
       THEN /\ resp' = To(credentials, AccessDenied("POST /upload"))
            /\ UNCHANGED <<upload, posts>>
       ELSE /\ ~upload.active
            /\ posts' = posts + 1
            /\ upload' = [active |-> TRUE, creds |-> credentials,
                          files |-> files, next |-> 1, uploaded |-> <<>>,
                          error |-> "none"]
            /\ UNCHANGED resp
    /\ UNCHANGED <<storage, appdir, clock, fetch, writers, uuids, alive>>

\* the callback of uploader(req, res, function (err) {...}) on an error;
\* multer has removed the files the request had stored by then
UploadError(kind) ==
    IF kind = "MulterError"
    THEN Response("POST /upload", 500, [error |-> "Multer uploading error"])
    ELSE IF kind = "ExtensionError"
    THEN Response("POST /upload", 413, [error |-> ALLOWED_FORMATS])
    ELSE Response("POST /upload", 500, [error |-> "unknown uploading error"])

\* multer's wrappedFileFilter: a part under another field, or one more than
\* maxCount parts, is LIMIT_UNEXPECTED_FILE
Unexpected(file, seen) == file.fieldname # "images" \/ seen >= MAX_COUNT

\* busboy cuts a file at limits.fileSize and multer reports LIMIT_FILE_SIZE
OverLimit(file) == file.size > UPLOAD_LIMIT

\* one part of the body reaches multer
UploadPart ==
    /\ Handler
    /\ upload.active
    /\ upload.error = "none"
    /\ upload.next <= Len(upload.files)
    /\ LET file == upload.files[upload.next]
           dest == filename(file.originalname, clock)
       IN  IF Unexpected(file, upload.next - 1)
           THEN /\ upload' = [upload EXCEPT !.error = "MulterError"]
                /\ UNCHANGED <<storage, alive>>
           ELSE IF ~fileFilter(file)
           THEN \* cb(null, false); cb(err) with err.name = "ExtensionError"
                /\ upload' = [upload EXCEPT !.error = "ExtensionError"]
                /\ UNCHANGED <<storage, alive>>
           ELSE IF FilenameThrows(file.originalname)
           THEN \* the TypeError of null![0] is thrown out of the stream's
                \* data event: nothing catches it and the process ends
                /\ alive' = FALSE
                /\ UNCHANGED <<storage, upload>>
           ELSE /\ dest \in Names(storage) \/ Len(storage) < MaxFiles
                /\ \E pos \in Positions(storage, dest) :
                      storage' = WriteEntry(storage, dest, clock,
                                            IF OverLimit(file)
                                            THEN "cut" ELSE file.data, pos)
                /\ upload' =
                     IF OverLimit(file)
                     THEN \* the cut file is written, and removed with the
                          \* others
                          [upload EXCEPT !.error = "MulterError",
                                         !.uploaded = Append(@, dest)]
                     ELSE [upload EXCEPT !.next = @ + 1,
                                         !.uploaded = Append(@, dest)]
                /\ UNCHANGED alive
    /\ UNCHANGED <<appdir, clock, fetch, writers, uuids, posts, resp>>

\* multer's abortWithError removes the files the request has stored, one
\* fs.unlink after the other, in the thread pool
UploadUnlink ==
    /\ Background
    /\ upload.active
    /\ upload.error # "none"
    /\ upload.uploaded # <<>>
    /\ storage' = RemoveEntry(storage, Head(upload.uploaded))
    /\ upload' = [upload EXCEPT !.uploaded = Tail(@)]
    /\ UNCHANGED <<appdir, clock, fetch, writers, uuids, posts, alive, resp>>

\* the callback with the error, once the files are removed
UploadFail ==
    /\ Handler
    /\ upload.active
    /\ upload.error # "none"
    /\ upload.uploaded = <<>>
    /\ resp' = To(upload.creds, UploadError(upload.error))
    /\ upload' = NoUpload
    /\ UNCHANGED <<storage, appdir, clock, fetch, writers, uuids, posts, alive>>

\* the callback without an error: res.redirect(SITE_BASEURL)
UploadDone ==
    /\ Handler
    /\ upload.active
    /\ upload.error = "none"
    /\ upload.next > Len(upload.files)
    /\ resp' = To(upload.creds,
                   Response("POST /upload", 302, [location |-> SITE_BASEURL]))
    /\ upload' = NoUpload
    /\ UNCHANGED <<storage, appdir, clock, fetch, writers, uuids, posts, alive>>

(***************************************************************************)
(* app.put("/url2image", ...): the access gate, the axios request, and     *)
(* its then / catch callbacks.                                             *)
(***************************************************************************)
PutUrl2image(credentials, url) ==
    /\ Handler
    /\ IF Denied(credentials)
       THEN /\ resp' = To(credentials, AccessDenied("PUT /url2image"))
            /\ UNCHANGED fetch
       ELSE IF NotAString(url)
       THEN \* return next()
            /\ resp' = To(credentials, NotHandled("PUT /url2image"))
            /\ UNCHANGED fetch
       ELSE /\ ~fetch.active
            /\ fetch' = [active |-> TRUE, creds |-> credentials,
                         url |-> url.s]
            /\ UNCHANGED resp
    /\ UNCHANGED <<storage, appdir, clock, upload, writers, uuids, posts,
                   alive>>

\* an id that is the same at every call
UuidFixed(k) == <<"uuid", "-", "0">>

\* uuidv4(): a name part no earlier call returned
Uuid(k) == <<"uuid", "-", DigitChars[(k % 10) + 1]>>

\* a fetch that takes every content-type there is
StartsWithAnything(contentType) == contentType # <<>>

\* contentType.startsWith("image")
StartsWithImage(contentType) ==
    contentType # <<>> /\ Head(contentType) \in {"image", "images"}

\* contentType.split("/")[1], undefined written by the template literal
Ext(contentType) ==
    LET parts == Components(contentType, <<>>)
    IN  IF Len(parts) >= 2 THEN parts[2] ELSE <<"undefined">>

DestFileName(k, now, contentType) ==
    Uuid(k) \o <<"-">> \o Format(now) \o <<".">> \o Ext(contentType)

\* .then((response) => {...}): the remote server answered 2xx
FetchThen(contentType) ==
    /\ Handler
    /\ fetch.active
    /\ IF contentType = <<>>
       THEN \* undefined.startsWith throws inside then: the catch answers
            /\ resp' = To(fetch.creds,
                          Response("PUT /url2image", 500,
                                   [err |-> "TypeError"]))
            /\ UNCHANGED <<writers, uuids>>
       ELSE IF ~StartsWithImage(contentType)
       THEN \* res.status(500).end()
            /\ resp' = To(fetch.creds,
                          Response("PUT /url2image", 500, [ended |-> TRUE]))
            /\ UNCHANGED <<writers, uuids>>
       ELSE /\ LET destFileName == DestFileName(uuids + 1, clock, contentType)
               IN  /\ writers' = writers \cup
                                   {[name |-> destFileName, opened |-> FALSE]}
                   /\ resp' = To(fetch.creds,
                                 Response("PUT /url2image", 200,
                                          [imageUrl |-> SITE_BASEURL
                                              \o <<"/">> \o destFileName,
                                           fileName |-> destFileName]))
            /\ uuids' = uuids + 1
    /\ fetch' = NoFetch
    /\ UNCHANGED <<storage, appdir, clock, upload, posts, alive>>

\* .catch((err) => {...}): no answer, or one outside 2xx
FetchCatch ==
    /\ Handler
    /\ fetch.active
    /\ resp' = To(fetch.creds,
                   Response("PUT /url2image", 500, [err |-> "AxiosError"]))
    /\ fetch' = NoFetch
    /\ UNCHANGED <<storage, appdir, clock, upload, writers, uuids, posts,
                   alive>>

\* the write stream opens its file: created empty, or cut to empty
WriterOpen ==
    /\ Background
    /\ \E w \in writers :
         /\ ~w.opened
         /\ w.name \in Names(storage) \/ Len(storage) < MaxFiles
         /\ \E pos \in Positions(storage, w.name) :
               storage' = WriteEntry(storage, w.name, clock, "", pos)
         /\ writers' = (writers \ {w}) \cup {[w EXCEPT !.opened = TRUE]}
    /\ UNCHANGED <<appdir, clock, upload, fetch, uuids, posts, alive, resp>>

\* the piped response has been written and the stream ends; a file unlinked
\* in between stays unlinked
WriterFinish ==
    /\ Background
    /\ \E w \in writers :
         /\ w.opened
         /\ storage' = IF w.name \in Names(storage)
                       THEN WriteEntry(storage, w.name, clock, "remote", 1)
                       ELSE storage
         /\ writers' = writers \ {w}
    /\ UNCHANGED <<appdir, clock, upload, fetch, uuids, posts, alive, resp>>

\* time passes
Tick ==
    /\ UNCHANGED <<env, listening, scan>>
    /\ clock < MaxClock
    /\ clock' = clock + 1
    /\ UNCHANGED <<storage, appdir, upload, fetch, writers, uuids, posts,
                   alive, resp>>

(***************************************************************************)
(* The specifications.  Spec is the whole server.  The others run a part   *)
(* of its routes: the listing routes on directories of up to MaxListing    *)
(* images, the three gated routes, and the upload route beside DELETE and  *)
(* the listing.                                                            *)
(***************************************************************************)
StorageFileNames == {QString(n) : n \in Names(storage)}

Next ==
    \/ \E page \in FewPageInputs : GetIndex(page)
    \/ \E page \in FewPageInputs : GetDelete(page)
    \/ GetUpload
    \/ GetUrl2image
    \/ \E fileName \in ViewInputs : GetImage(fileName)
    \/ \E fileName \in ViewInputs \cup Names(storage) : GetStatic(fileName)
    \/ \E c \in CredentialInputs, f \in DeleteInputs \cup StorageFileNames :
          Delete(c, f)
    \/ \E c \in CredentialInputs, files \in UploadInputs :
          (Denied(c) \/ posts < MaxPosts) /\ PostUpload(c, files)
    \/ UploadPart
    \/ UploadUnlink
    \/ UploadFail
    \/ UploadDone
    \/ \E c \in CredentialInputs, url \in UrlInputs : PutUrl2image(c, url)
    \/ \E contentType \in ContentTypes :
          /\ uuids < MaxUuid \/ ~StartsWithImage(contentType)
          /\ FetchThen(contentType)
    \/ FetchCatch
    \/ WriterOpen
    \/ WriterFinish
    \/ Tick

Spec == Init /\ [][Next]_vars

NextListing ==
    \/ \E page \in PageInputs : GetIndex(page)
    \/ \E page \in PageInputs : GetDelete(page)

SpecListing == InitListing /\ [][NextListing]_vars

NextGate ==
    \/ \E c \in CredentialInputs, f \in DeleteInputs \cup StorageFileNames :
          Delete(c, f)
    \/ \E c \in CredentialInputs, files \in FewUploadInputs :
          (Denied(c) \/ posts < MaxPosts) /\ PostUpload(c, files)
    \/ UploadPart
    \/ UploadFail
    \/ UploadDone
    \/ \E c \in CredentialInputs, url \in UrlInputs : PutUrl2image(c, url)
    \/ \E contentType \in ContentTypes :
          /\ uuids < MaxUuid \/ ~StartsWithImage(contentType)
          /\ FetchThen(contentType)
    \/ FetchCatch
    \/ WriterOpen
    \/ WriterFinish

SpecGate == Init /\ [][NextGate]_vars

NextUpload ==
    \/ \E page \in FewPageInputs : GetIndex(page)
    \/ \E c \in FewCredentialInputs, f \in DeleteInputs \cup StorageFileNames :
          Delete(c, f)
    \/ \E c \in FewCredentialInputs, files \in UploadInputs :
          (Denied(c) \/ posts < MaxPosts) /\ PostUpload(c, files)
    \/ UploadPart
    \/ UploadUnlink
    \/ UploadFail
    \/ UploadDone
    \/ Tick

SpecUpload == Init /\ [][NextUpload]_vars

\* the process from its start, under every environment, with requests of
\* the routes that need no upload
NextStart ==
    \/ Startup
    \/ GetUpload
    \/ \E fileName \in ViewInputs : GetImage(fileName)
    \/ \E c \in CredentialInputs, f \in DeleteInputs \cup StorageFileNames :
          Delete(c, f)

SpecStart == InitStart /\ [][NextStart]_vars

\* the pages that show images or counts of them, on directories of every
\* kind of name
NextView ==
    \/ GetUpload
    \/ GetUrl2image
    \/ \E fileName \in ViewInputs : GetImage(fileName)
    \/ \E fileName \in ViewInputs \cup Names(storage) : GetStatic(fileName)
    \/ Tick

SpecView == InitView /\ [][NextView]_vars

\* bodies at and over the limits of the uploader: four and five files, a
\* file over the size cap alone, after an image, after a file of another
\* MIME type, and after a name without a "."
LimitInputs ==
    { [i \in 1..MAX_COUNT |-> PngPart],
      [i \in 1..(MAX_COUNT + 1) |-> PngPart],
      <<BigPart>>, <<PngPart, BigPart>>,
      <<PngAsTextPart, BigPart>>, <<NoDotPart, BigPart>> }

\* the administrator uploading at the limits
NextLimits ==
    \/ \E files \in LimitInputs :
          /\ posts < MaxPosts
          /\ PostUpload(Credentials(ADMIN_USER, ADMIN_PASS), files)
    \/ UploadPart
    \/ UploadUnlink
    \/ UploadFail
    \/ UploadDone
    \/ Tick

SpecLimits == Init /\ [][NextLimits]_vars

\* how many remote images the administrator fetches
MaxFetches == 2

\* the administrator fetching remote images, one after the other or within
\* one second
NextFetch ==
    \/ PutUrl2image(Credentials(ADMIN_USER, ADMIN_PASS),
                    QString(<<"http://remote/img">>))
    \/ \E contentType \in {<<"image", "/", "png">>, <<"image", "/", "jpeg">>} :
          uuids < MaxFetches /\ FetchThen(contentType)
    \/ FetchCatch
    \/ WriterOpen
    \/ WriterFinish
    \/ Tick

SpecFetch == Init /\ [][NextFetch]_vars

\* requests with and without the configured pair, while an upload and a
\* remote fetch of the administrator are under way
NextRefuse ==
    \/ \E c \in CredentialInputs, f \in DeleteInputs \cup StorageFileNames :
          Delete(c, f)
    \/ \E c \in CredentialInputs :
          (Denied(c) \/ posts < MaxPosts) /\ PostUpload(c, <<PngPart>>)
    \/ UploadPart
    \/ UploadDone
    \/ \E c \in CredentialInputs, url \in UrlInputs : PutUrl2image(c, url)
    \/ uuids < MaxUuid /\ FetchThen(<<"image", "/", "png">>)
    \/ WriterOpen
    \/ WriterFinish

SpecRefuse == Init /\ [][NextRefuse]_vars

\* every GET route, between the deletions of the administrator
NextGets ==
    \/ \E page \in FewPageInputs : GetIndex(page)
    \/ \E page \in FewPageInputs : GetDelete(page)
    \/ GetUpload
    \/ GetUrl2image
    \/ \E fileName \in ViewInputs : GetImage(fileName)
    \/ \E fileName \in ViewInputs \cup Names(storage) : GetStatic(fileName)
    \/ \E f \in StorageFileNames :
          Delete(Credentials(ADMIN_USER, ADMIN_PASS), f)

SpecGets == InitView /\ [][NextGets]_vars

\* the listings read in two steps, while the administrator uploads and
\* fetches
NextScan ==
    \/ \E route \in {"GET /", "GET /delete"} : ScanRead(route, PageMissing)
    \/ ScanStat
    \/ \E files \in {<<PngPart>>, <<PngPart, ExePart>>} :
          /\ posts < MaxPosts
          /\ PostUpload(Credentials(ADMIN_USER, ADMIN_PASS), files)
    \/ UploadPart
    \/ UploadUnlink
    \/ UploadFail
    \/ UploadDone
    \/ PutUrl2image(Credentials(ADMIN_USER, ADMIN_PASS),
                    QString(<<"http://remote/img">>))
    \/ uuids < MaxUuid /\ FetchThen(<<"image", "/", "png">>)
    \/ WriterOpen
    \/ WriterFinish
    \/ Tick

SpecScan == Init /\ [][NextScan]_vars

\* the bodies of two images with one name
SameNameInputs == { <<PngPart>>, <<PngPart2>>, <<PngPart, PngPart2>> }

\* the administrator uploading images of one name, in one request and in
\* two, as the seconds pass
NextCollide ==
    \/ \E files \in SameNameInputs :
          /\ posts < MaxCollidePosts
          /\ PostUpload(Credentials(ADMIN_USER, ADMIN_PASS), files)
    \/ UploadPart
    \/ UploadDone
    \/ \E f \in StorageFileNames :
          Delete(Credentials(ADMIN_USER, ADMIN_PASS), f)
    \/ Tick

SpecCollide == Init /\ [][NextCollide]_vars

\* the administrator storing and deleting images, by upload and by remote
\* fetch, beside the listing routes
NextStore ==
    \/ \E page \in FewPageInputs : GetIndex(page)
    \/ \E page \in FewPageInputs : GetDelete(page)
    \/ \E f \in StorageFileNames :
          Delete(Credentials(ADMIN_USER, ADMIN_PASS), f)
    \/ /\ posts < MaxPosts
       /\ PostUpload(Credentials(ADMIN_USER, ADMIN_PASS), <<PngPart>>)
    \/ UploadPart
    \/ UploadDone
    \/ \E url \in UrlInputs :
          PutUrl2image(Credentials(ADMIN_USER, ADMIN_PASS), url)
    \/ uuids < MaxUuid /\ FetchThen(<<"image", "/", "png">>)
    \/ WriterOpen
    \/ WriterFinish
    \/ Tick

SpecStore == Init /\ [][NextStore]_vars

(***************************************************************************)
(* The claims.                                                             *)
(***************************************************************************)
\* the bound of the page indices the listing claims run over
MaxPage == 4

IsListing(r) == r.route \in {"GET /", "GET /delete"}

\* the elements of files at the 0-based positions p with
\* (I-1)*S <= p < I*S and 0 <= p < N, in order
ClampedSlice(files, I) ==
    LET lo == Max((I - 1) * PAGE_SIZE, 0)
        hi == Min(I * PAGE_SIZE, Len(files))
    IN  IF hi > lo THEN SubSeq(files, lo + 1, hi) ELSE <<>>

\* C1: for every listing of N file names and every integer page index I,
\* zero and negative ones included, the page the listing routes get from
\* paginate(files, 20, I) is exactly the run of the listing at the positions
\* (I-1)*20 <= p < I*20 that exist, and is empty when none exists.
C1_PaginateIsClampedSlice ==
    (IsListing(resp) /\ resp.body.pagination.index.t = "num")
        => resp.body.pagination.files
             = ClampedSlice(resp.body.files, resp.body.pagination.index.v)

\* C2: in every listing response with an integer page index I, prev is
\* absent exactly when I <= 1 or page I-1 is empty and is I-1 otherwise, and
\* next is absent exactly when page I+1 is empty and is I+1 otherwise.
C2_PrevNextExactly ==
    (IsListing(resp) /\ resp.body.pagination.index.t = "num")
        => LET I     == resp.body.pagination.index.v
               files == resp.body.files
               p     == resp.body.pagination
           IN  /\ p.prev = IF I <= 1 \/ ClampedSlice(files, I - 1) = <<>>
                           THEN Null ELSE JsNum(I - 1)
               /\ p.next = IF ClampedSlice(files, I + 1) = <<>>
                           THEN Null ELSE JsNum(I + 1)

\* the pages 1..k of files, one after the other
RECURSIVE PagesUpTo(_, _)
PagesUpTo(files, k) ==
    IF k = 0 THEN <<>>
    ELSE PagesUpTo(files, k - 1) \o paginate(files, PAGE_SIZE, JsNum(k))

\* C3: with page size 20 the pages 1, 2, ... are consecutive runs of the
\* listing: page I holds min(20, max(0, N - 20*(I-1))) names, the pages
\* put one after the other are the whole listing, next is I+1 before the
\* last non-empty page and absent on it and on every page after it; and a
\* listing response for page I >= 1 carries exactly that page.
C3_PagesPartitionListing ==
    LET files == readSyncImageFiles(storage)
        N     == Len(files)
    IN  /\ \A I \in 1..MaxPage :
             /\ Len(paginate(files, PAGE_SIZE, JsNum(I)))
                  = Min(PAGE_SIZE, Max(0, N - PAGE_SIZE * (I - 1)))
             /\ Pagination(files, JsNum(I)).next
                  = IF I * PAGE_SIZE >= N THEN Null ELSE JsNum(I + 1)
        /\ (N <= PAGE_SIZE * MaxPage) => PagesUpTo(files, MaxPage) = files
        /\ (IsListing(resp) /\ resp.body.pagination.index.t = "num"
              /\ resp.body.pagination.index.v >= 1)
             => LET I == resp.body.pagination.index.v
                    p == resp.body.pagination
                IN  /\ p.files = ClampedSlice(resp.body.files, I)
                    /\ p.next = IF I * PAGE_SIZE >= Len(resp.body.files)
                                THEN Null ELSE JsNum(I + 1)

\* 25 files: page 2 was asked for and holds the last 5, with no next page
C3_Witness ==
    /\ resp.route = "GET /"
    /\ Len(resp.body.files) = 25
    /\ resp.body.pagination.index = JsNum(2)
    /\ Len(resp.body.pagination.files) = 5
    /\ resp.body.pagination.next = Null

\* a page parameter that is missing, or a string with no digit in it
MissingOrNonNumeric(page) ==
    \/ page.t = "undefined"
    \/ /\ page.t = "string"
       /\ \A i \in 1..Len(page.s) : DigitValue(page.s[i]) >= 10

\* the response the claim expects for them: the first page, no prev, and a
\* next exactly when there are more than 20 files
FirstPageShown(r, dir) ==
    LET files == readSyncImageFiles(dir)
    IN  /\ r.body.pagination.index = JsNum(1)
        /\ r.body.pagination.files = ClampedSlice(files, 1)
        /\ r.body.page.images = ClampedSlice(files, 1)
        /\ r.body.pagination.prev = Null
        /\ r.body.pagination.next
             = IF Len(files) > PAGE_SIZE THEN JsNum(2) ELSE Null

\* C4: GET / and GET /delete with a missing or non-numeric page parameter
\* use the page index 1 and show the first page of the listing.
C4_DefaultPageIsOne ==
    [][\A page \in PageInputs :
          (MissingOrNonNumeric(page) /\ (GetIndex(page) \/ GetDelete(page)))
             => FirstPageShown(resp', storage)]_vars

IsGated(r) == r.route \in {"POST /upload", "DELETE /delete", "PUT /url2image"}

\* the credentials are the configured pair
Configured(c) == c.present /\ c.name = ADMIN_USER /\ c.pass = ADMIN_PASS

\* the strings one character away from s: one character changed, left out
\* or put in
Letters == {"o", "x"}

OneAway(s) ==
    ({[s EXCEPT ![i] = c] : i \in 1..Len(s), c \in Letters} \ {s})
      \cup {SubSeq(s, 1, i - 1) \o SubSeq(s, i + 1, Len(s)) : i \in 1..Len(s)}
      \cup {SubSeq(s, 1, i) \o <<c>> \o SubSeq(s, i + 1, Len(s)) :
               i \in 0..Len(s), c \in Letters}

\* C5: checkAuth(user, pass) accepts exactly the configured pair: a pair
\* that differs from it in either field, be it by one character, is
\* rejected; and a gated request that carried credentials got past the gate
\* exactly when they were the configured pair.
C5_CheckAuthExactPair ==
    /\ \A user \in {ADMIN_USER, ADMIN_PASS, <<>>} \cup OneAway(ADMIN_USER),
          pass \in {ADMIN_PASS, ADMIN_USER, <<>>} \cup OneAway(ADMIN_PASS) :
          checkAuth(user, pass) <=> (user = ADMIN_USER /\ pass = ADMIN_PASS)
    /\ (IsGated(resp) /\ resp.creds.present)
          => (resp.status # 401
                <=> (resp.creds.name = ADMIN_USER
                       /\ resp.creds.pass = ADMIN_PASS))

\* a request with the right user and a password one character off was
\* rejected
C5_Witness ==
    /\ IsGated(resp)
    /\ resp.creds.present
    /\ resp.creds.name = ADMIN_USER
    /\ resp.creds.pass \in OneAway(ADMIN_PASS)
    /\ resp.status = 401

\* C6: each gated route answers 401 with the WWW-Authenticate: Basic
\* challenge when the request carries no credentials or credentials other
\* than the configured pair, and answers another status, without the
\* challenge, when it carries the configured pair.
C6_GateAnswers401 ==
    IsGated(resp)
        => IF Configured(resp.creds)
           THEN resp.status # 401 /\ ~resp.challenge
           ELSE resp.status = 401 /\ resp.challenge

\* a request without credentials was answered 401 with the challenge
C6_Witness ==
    /\ resp.route = "PUT /url2image"
    /\ ~resp.creds.present
    /\ resp.status = 401
    /\ resp.challenge

\* C7: DELETE /delete with accepted credentials and a fileName that is not
\* the name of an entry of the storage directory answers 404 and leaves the
\* directory as it is.
C7_DeleteAbsentIs404 ==
    [][\A c \in CredentialInputs, f \in DeleteInputs \cup StorageFileNames :
          (Configured(c) /\ f.t = "string" /\ f.s \notin Names(storage)
             /\ Delete(c, f))
            => (resp'.status = 404 /\ storage' = storage)]_vars

\* the directory without the entry of a name, the other entries in place
Without(dir, name) ==
    LET Other(e) == e.name # name
    IN  SelectSeq(dir, Other)

\* C8: DELETE /delete with accepted credentials and the name of a regular
\* file of the storage directory answers 204 and removes that entry and no
\* other; the name is in no listing computed afterwards unless an upload
\* or a remote fetch has created it again.
C8_DeletePresentIs204 ==
    [][/\ \A f \in StorageFileNames :
             (/\ resp'.route = "DELETE /delete"
              /\ Entry(storage, f.s).kind = "file"
              /\ Delete(Credentials(ADMIN_USER, ADMIN_PASS), f))
               => /\ resp'.status = 204
                  /\ storage' = Without(storage, f.s)
                  /\ appdir' = appdir
                  /\ LET body == ListingBody(storage', PageMissing)
                     IN  /\ f.s \notin Range(body.files)
                         /\ f.s \notin Range(body.pagination.files)
       /\ \A n \in Names(storage') \ Names(storage) : UploadPart \/ WriterOpen
       /\ (IsListing(resp') /\ resp' # resp)
            => Range(resp'.body.files) \subseteq Names(storage)
      ]_vars

\* x.png was deleted from a directory that held notes.txt and x.png
C8_Witness ==
    /\ resp.route = "DELETE /delete"
    /\ resp.status = 204
    /\ appdir = {<<"app", ".", "js">>}
    /\ Names(storage) = {<<"notes", ".", "txt">>}

\* C9: POST /upload stores a file only if its extension and its MIME type
\* are both on the allow-list.
C9_StoresOnlyAllowed ==
    [][(UploadPart /\ Len(upload'.uploaded) > Len(upload.uploaded))
          => LET file == upload.files[upload.next]
             IN  /\ ALLOWED_FORMATS_REGEX_test(file.originalname)
                 /\ file.mimetype \in ALLOWED_MIMETYPES]_vars

\* a part the claim of C10 is about: an image under the size cap, with an
\* allowed extension and MIME type, under the field and count the route takes
ValidPart(file, seen) ==
    /\ file.fieldname = "images"
    /\ seen < MAX_COUNT
    /\ ALLOWED_FORMATS_REGEX_test(file.originalname)
    /\ file.mimetype \in ALLOWED_MIMETYPES
    /\ file.size <= UPLOAD_LIMIT

\* name is in the listing of dir with no strictly newer name before it
NewestOrTied(dir, name) ==
    /\ name \in Names(dir)
    /\ name \in Range(readSyncImageFiles(dir))
    /\ \A e \in Range(dir) :
          ALLOWED_FORMATS_REGEX_test(e.name)
            => e.mtime <= Entry(dir, name).mtime

\* C10: when a valid image part of an accepted POST /upload is taken, the
\* file is stored at once under its generated name, which ends with the
\* extension of the original name and is in the listing as the newest entry
\* or tied with it; only a DELETE or a failing part of the same request
\* takes a stored file away again; and the request whose parts were all
\* taken is redirected to SITE_BASEURL.
C10_UploadStoredAndListed ==
    [][/\ (UploadPart /\ ValidPart(upload.files[upload.next], upload.next - 1))
            => LET file == upload.files[upload.next]
                   dest == Last(upload'.uploaded)
               IN  /\ upload'.uploaded = Append(upload.uploaded, dest)
                   /\ dest = filename(file.originalname, clock)
                   /\ Last(dest) = Last(file.originalname)
                   /\ Entry(storage', dest) = File(dest, clock, file.data)
                   /\ NewestOrTied(storage', dest)
                   /\ resp' = resp
       /\ (upload.active /\ upload'.active)
            => \A n \in Range(upload.uploaded) \cap Names(storage) :
                  \/ n \in Names(storage')
                  \/ UploadUnlink
                  \/ \E c \in CredentialInputs : Delete(c, QString(n))
       /\ UploadDone
            => /\ resp'.status = 302
               /\ resp'.body.location = SITE_BASEURL
               /\ Configured(resp'.creds)
      ]_vars

\* a.png was uploaded, stored with its content under the generated name
\* and listed first, and the request was redirected
C10_Witness ==
    /\ resp.route = "POST /upload"
    /\ resp.status = 302
    /\ \E e \in Range(storage) :
          /\ e.data = "png-1"
          /\ e.name[Len(e.name)] = "png"
          /\ readSyncImageFiles(storage)[1] = e.name

\* the content-type begins with "image"
BeginsWithImage(contentType) ==
    Len(contentType) > 0 /\ contentType[1] \in {"image", "images"}

\* the names the write streams of a set are for
WriterNames(ws) == {w.name : w \in ws}

\* C11: PUT /url2image with accepted credentials writes a file to storage
\* only if the content-type of the remote response begins with "image": a
\* response of another content-type or of none, and a failure of the
\* request, are answered 500 and neither write to storage nor leave a
\* write stream behind; a write stream is only ever made for a response
\* whose content-type begins with "image", and the remote fetch creates no
\* name in storage but that of a write stream.
C11_FetchWritesOnlyImages ==
    [][/\ (fetch.active /\ ~fetch'.active)
            => /\ \A contentType \in ContentTypes :
                     (~BeginsWithImage(contentType) /\ FetchThen(contentType))
                        => /\ resp'.status = 500
                           /\ storage' = storage
                           /\ writers' = writers
               /\ FetchCatch
                     => /\ resp'.status = 500
                        /\ storage' = storage
                        /\ writers' = writers
       /\ writers' # writers
            => \/ WriterNames(writers') \subseteq WriterNames(writers)
               \/ \E contentType \in ContentTypes :
                     BeginsWithImage(contentType) /\ FetchThen(contentType)
       /\ \A n \in Names(storage') \ Names(storage) :
             UploadPart \/ n \in WriterNames(writers)
      ]_vars

\* a fetch was answered 500, nothing was written and nothing will be
C11_Witness ==
    /\ resp.route = "PUT /url2image"
    /\ Configured(resp.creds)
    /\ resp.status = 500
    /\ ~fetch.active
    /\ writers = {}
    /\ uuids = 0
    /\ storage \in InitialDirs

\* C12: PUT /url2image with accepted credentials and a remote image of a
\* supported format (content-type image/png, image/jpeg, image/svg+xml, ...)
\* answers 200 with imageUrl = SITE_BASEURL + "/" + fileName, the image is
\* written under fileName, and once written the name is in the listing.
C12_RemoteImageListed ==
    [][/\ (fetch.active /\ ~fetch'.active)
            => \A contentType \in ContentTypes :
                  (BeginsWithImage(contentType) /\ FetchThen(contentType))
                     => /\ resp'.status = 200
                        /\ resp'.body.imageUrl
                             = SITE_BASEURL \o <<"/">> \o resp'.body.fileName
                        /\ resp'.body.fileName \in WriterNames(writers')
       /\ \A w \in writers \ writers' :
             (w.opened /\ w.name \in Names(storage'))
                => /\ Entry(storage', w.name).data = "remote"
                   /\ w.name \in Range(readSyncImageFiles(storage'))
      ]_vars

\* the extensions the claim of C13 lists, and those with tif beside tiff
ListedExtensions == {"png", "jpg", "jpeg", "gif", "webp", "bmp", "tiff", "svg"}

ListedExtensionsAndTif == ListedExtensions \cup {"tif"}

\* the name ends with "." and one of the extensions, in any letter case
HasExtensionIn(name, extensions) ==
    /\ Len(name) >= 2
    /\ name[Len(name) - 1] = "."
    /\ ToLowerCase(name[Len(name)]) \in extensions

\* files holds exactly the names of dir with one of the extensions, each
\* once, with last-modified times that never increase
IsScanOf(files, dir, extensions) ==
    /\ Range(files) = {n \in Names(dir) : HasExtensionIn(n, extensions)}
    /\ \A i, j \in 1..Len(files) : i # j => files[i] # files[j]
    /\ \A i, j \in 1..Len(files) :
          i < j => Entry(dir, files[i]).mtime >= Entry(dir, files[j]).mtime

\* the single-image page was sent: its provider holds a scan of storage
ShowsScan(r) == r.route = "GET /i" /\ r.status = 200

\* C13 as stated: readSyncImageFiles returns exactly the names of the
\* storage directory with an extension among png, jpg, jpeg, gif, webp, bmp,
\* tiff, svg (any letter case), each once, in an order of non-increasing
\* last-modified time.
C13_ScanListedExtensions ==
    ShowsScan(resp)
       => IsScanOf(resp.body.listing.files, storage, ListedExtensions)

\* C13, amended: readSyncImageFiles returns exactly the names of the storage
\* directory with an extension among png, jpg, jpeg, gif, webp, bmp, tif,
\* tiff, svg (any letter case), each once, in an order of non-increasing
\* last-modified time; the pages that only count the images count these.
C13_ScanAllowedExtensions ==
    /\ ShowsScan(resp)
         => IsScanOf(resp.body.listing.files, storage, ListedExtensionsAndTif)
    /\ resp.route \in {"GET /upload", "GET /url2image"}
         => resp.body.count
              = Cardinality({n \in Names(storage) :
                               HasExtensionIn(n, ListedExtensionsAndTif)})

\* a scan of x.png, scan.tif, n.PNG and notes.txt was shown
C13_Witness ==
    /\ ShowsScan(resp)
    /\ <<"notes", ".", "txt">> \in Names(storage)
    /\ <<"scan", ".", "tif">> \in Range(resp.body.listing.files)
    /\ <<"n", ".", "PNG">> \in Range(resp.body.listing.files)
    /\ Len(resp.body.listing.files) = 3

\* the position of the last "." of a name that has one
LastDot(name) ==
    CHOOSE i \in 1..Len(name) :
       /\ name[i] = "."
       /\ \A j \in (i + 1)..Len(name) : name[j] # "."

\* the original name without its extension, "-", the timestamp, "." and the
\* extension, the extension being what follows the last "."
BaseTimestampExtension(originalname, now) ==
    SubSeq(originalname, 1, LastDot(originalname) - 1)
      \o <<"-">> \o Format(now) \o <<".">>
      \o SubSeq(originalname, LastDot(originalname) + 1, Len(originalname))

\* C15: every uploaded file is stored under its original name without the
\* extension, then "-", the timestamp of the upload, "." and the original
\* extension, the extension being the part after the last ".".
C15_DestinationName ==
    [][(upload'.uploaded # upload.uploaded /\ UploadPart
          /\ Len(upload'.uploaded) > Len(upload.uploaded))
          => Last(upload'.uploaded)
               = BaseTimestampExtension(
                    upload.files[upload.next].originalname, clock)]_vars

\* two times of one clock second
SameSecond(t1, t2) == t1 \div TicksPerSecond = t2 \div TicksPerSecond

\* C16: a file of an upload gets the destination filename that every file
\* of the same original name gets within the same clock second, in this
\* request or another; when a file of that name is in storage the write
\* replaces its content, storage keeps one entry for both, and no error is
\* reported: the request goes on and ends with the redirect.
C16_SameSecondOverwrites ==
    [][/\ (upload'.uploaded # upload.uploaded /\ UploadPart)
            => LET file == upload.files[upload.next]
                   dest == Last(upload'.uploaded)
               IN  /\ \A t \in 0..MaxClock :
                         SameSecond(t, clock)
                            => filename(file.originalname, t) = dest
                   /\ dest \in Names(storage)
                         => /\ Len(storage') = Len(storage)
                            /\ Names(storage') = Names(storage)
                            /\ Entry(storage', dest).data = file.data
                            /\ upload'.active
                            /\ resp' = resp
                            /\ alive'
       /\ UploadDone => resp'.status = 302
      ]_vars

\* the second request stored two files under one name: storage holds one
\* entry of that name, with the content of the last file
C16_Witness ==
    /\ posts = 2
    /\ upload.active
    /\ Len(upload.uploaded) = 2
    /\ upload.uploaded[1] = upload.uploaded[2]
    /\ Cardinality({i \in 1..Len(storage) :
                      storage[i].name = upload.uploaded[1]}) = 1
    /\ Entry(storage, upload.uploaded[1]).data = "png-2"
    /\ clock = 1

\* C17: a stored image is never mutated in place: no step changes the
\* content stored under a filename that is in storage before and after it.
C17_NeverMutatedInPlace ==
    [][\A n \in Names(storage) \cap Names(storage') :
          Entry(storage', n).kind = "file"
             => Entry(storage', n).data = Entry(storage, n).data]_vars

\* names of equal time are in the order the directory gives them
TiesInDirectoryOrder(files, dir) ==
    \A i, j \in 1..Len(files) :
       (i < j /\ Entry(dir, files[i]).mtime = Entry(dir, files[j]).mtime)
          => IndexOf(dir, files[i]) < IndexOf(dir, files[j])

\* C18: every response of GET / and GET /delete is the pagination of the
\* sorted contents the storage directory has when the request is served,
\* whatever uploads, remote fetches and deletes came before: its files are
\* the image names now in storage, newest first, and its page is the slice
\* of them at the requested index.
C18_ListingsNeverCached ==
    [][(IsListing(resp') /\ resp' # resp)
          => LET files      == resp'.body.files
                 pagination == resp'.body.pagination
             IN  /\ IsScanOf(files, storage, ListedExtensionsAndTif)
                 /\ TiesInDirectoryOrder(files, storage)
                 /\ pagination.index.t = "num"
                       => pagination.files
                            = ClampedSlice(files, pagination.index.v)
                 /\ pagination.index.t # "num" => pagination.files = <<>>
      ]_vars

\* GET /delete listed an uploaded and a fetched image beside notes.txt,
\* after x.png had been deleted
C18_Witness ==
    /\ resp.route = "GET /delete"
    /\ posts = 1
    /\ uuids = 1
    /\ writers = {}
    /\ <<"notes", ".", "txt">> \in Names(storage)
    /\ <<"x", ".", "png">> \notin Names(storage)
    /\ Len(resp.body.files) = 2
    /\ Len(storage) = 3

\* the calls are one comparison of the user and one of the password, by
\* compare, in this order
ComparesBoth(calls, user, pass) ==
    calls = <<Call(user, ADMIN_USER), Call(pass, ADMIN_PASS)>>

\* C19: checkAuth compares each credential with tsscmp's compare and makes
\* the password comparison whatever the user comparison gave: for every
\* pair of credentials, whichever field mismatches, the calls it makes are
\* compare(user, ADMIN_USER) and then compare(pass, ADMIN_PASS); so for the
\* credentials of every gated request.
C19_NoShortCircuit ==
    /\ \A user \in {ADMIN_USER, <<>>} \cup OneAway(ADMIN_USER),
          pass \in {ADMIN_PASS, ADMIN_USER, <<>>, <<"f", "o", "x">>} :
          ComparesBoth(checkAuthCalls(user, pass), user, pass)
    /\ (IsGated(resp) /\ resp.creds.present)
          => ComparesBoth(checkAuthCalls(resp.creds.name, resp.creds.pass),
                          resp.creds.name, resp.creds.pass)

\* a request with a wrong user and the right password was rejected, after
\* both comparisons
C19_Witness ==
    /\ IsGated(resp)
    /\ resp.creds.present
    /\ resp.creds.name # ADMIN_USER
    /\ resp.creds.pass = ADMIN_PASS
    /\ resp.status = 401
    /\ Len(checkAuthCalls(resp.creds.name, resp.creds.pass)) = 2

\* C20: GET /i/:fileName answers 415 exactly when the extension of
\* fileName is not on the allow-list; for a fileName with an allowed
\* extension, in any letter case and whether or not storage holds the file,
\* it answers 200 with the single-image page of that fileName.
C20_ViewIs415IffUnsupported ==
    [][\A fileName \in ViewInputs :
          (resp'.route = "GET /i" /\ GetImage(fileName))
             => /\ resp'.status = 415
                     <=> ~HasExtensionIn(fileName, ListedExtensionsAndTif)
                /\ HasExtensionIn(fileName, ListedExtensionsAndTif)
                     => /\ resp'.status = 200
                        /\ resp'.body.fileName = fileName
      ]_vars

\* a name without an allowed extension was asked for and answered 415
C20_Witness ==
    /\ resp.route = "GET /i"
    /\ resp.status = 415
    /\ storage # <<>>

\* the four variables hold a value
AllSet(e) == \A n \in EnvNames : e[n] = "value"

\* C21: the server listens only if SITE_BASEURL, ADMIN_USER, ADMIN_PASS and
\* UPLOAD_LIMIT_MB are all set; when one of them is absent (or empty) the
\* process ends at startup, never listens and never answers a request.
C21_ListensOnlyWhenConfigured ==
    /\ listening => AllSet(env)
    /\ resp # NoResponse => AllSet(env)
    /\ ~AllSet(env)
          => (~listening /\ resp = NoResponse /\ storage \in InitialDirs)
    /\ (~alive /\ ~listening) => ~AllSet(env)

\* startup threw because UPLOAD_LIMIT_MB alone is absent
C21_Witness ==
    /\ ~alive
    /\ ~listening
    /\ env["UPLOAD_LIMIT_MB"] = "undefined"
    /\ \A n \in EnvNames \ {"UPLOAD_LIMIT_MB"} : env[n] = "value"

ExceedsLimits(files) ==
    \/ Len(files) > MAX_COUNT
    \/ \E i \in 1..Len(files) : files[i].size > UPLOAD_LIMIT

\* C23: an accepted POST /upload that has more than 4 files under images
\* or a file over the size cap is answered 500 with the message of an
\* upload-library error: no step of it ends the process or answers
\* anything else, and a redirect answers only a request within the limits.
C23_OverLimitIs500 ==
    [][(upload.active /\ ExceedsLimits(upload.files))
          => /\ alive'
             /\ ~upload'.active
                  => /\ resp'.status = 500
                     /\ resp'.body.error = "Multer uploading error"]_vars

\* C28: the filename generator of the uploader yields a name for every
\* original filename, one without a "." included: no step of an upload
\* throws, so the process that answers the request stays up.
C28_FilenameNeverThrows == [][upload.active => alive']_vars

\* C24: a remote fetch that succeeds stores its image under a fresh id,
\* "-", the timestamp of the fetch, "." and the subtype of the remote
\* content-type; the name is the name of no file in storage and of no
\* other fetch being written, so that creating and writing the file leaves
\* every other file of storage as it was, also when two fetches complete
\* in the same second.
C24_FetchNeverOverwrites ==
    [][/\ (fetch.active /\ ~fetch'.active /\ resp'.status = 200)
            => \E contentType \in ContentTypes :
                  /\ resp'.body.fileName
                       = Uuid(uuids') \o <<"-">> \o Format(clock) \o <<".">>
                           \o SubSeq(contentType, 3, Len(contentType))
                  /\ resp'.body.fileName \notin Names(storage)
                  /\ resp'.body.fileName \notin WriterNames(writers)
                  /\ WriterNames(writers')
                       = WriterNames(writers) \cup {resp'.body.fileName}
       /\ (WriterOpen \/ WriterFinish)
            => \A n \in Names(storage) :
                  /\ n \in Names(storage')
                  /\ \/ Entry(storage', n) = Entry(storage, n)
                     \/ /\ WriterFinish
                        /\ n \in WriterNames(writers)
                        /\ Entry(storage, n).data = ""]_vars

\* two remote images fetched within one second are both in storage
C24_Witness ==
    \E i, j \in 1..Len(storage) :
       /\ i # j
       /\ Len(storage[i].name) >= 7
       /\ Len(storage[j].name) >= 7
       /\ SubSeq(storage[i].name, 5, 7) = SubSeq(storage[j].name, 5, 7)
       /\ storage[i].data = "remote"
       /\ storage[j].data = "remote"
       /\ SubSeq(storage[i].name, 1, 2) = <<"uuid", "-">>
       /\ SubSeq(storage[j].name, 1, 2) = <<"uuid", "-">>

\* the step answered 401 and touched neither the files nor the work of the
\* process
Refused ==
    /\ resp'.status = 401
    /\ storage' = storage
    /\ appdir' = appdir
    /\ upload' = upload
    /\ fetch' = fetch
    /\ writers' = writers

\* C25: a request to a gated route that carries no credentials or
\* credentials other than the configured pair is answered 401 whatever its
\* query parameters and body are, and leaves the storage directory, the
\* files next to it and the uploads and fetches of the process unchanged:
\* the credential check comes before every other step of the handler.
C25_RefusedBeforeAnyStep ==
    [][\A c \in CredentialInputs :
          ~Configured(c)
             => /\ \A f \in DeleteInputs \cup StorageFileNames :
                      (resp'.route = "DELETE /delete" /\ Delete(c, f))
                         => Refused
                /\ \A files \in UploadInputs :
                      (resp'.route = "POST /upload" /\ PostUpload(c, files))
                         => Refused
                /\ \A url \in UrlInputs :
                      (resp'.route = "PUT /url2image" /\ PutUrl2image(c, url))
                         => Refused]_vars

\* a request without the configured pair for a file that is in storage was
\* answered 401
C25_Witness ==
    /\ resp.route = "DELETE /delete"
    /\ resp.status = 401
    /\ resp.creds.present
    /\ ~Configured(resp.creds)
    /\ storage # <<>>

\* C26: DELETE /delete removes only files that are directly in the storage
\* directory: whatever fileName is, ".." segments and separators included,
\* the files outside the storage directory stay where they are.
C26_DeleteStaysInStorage ==
    [][resp'.route = "DELETE /delete" => appdir' = appdir]_vars

\* C27: PUT /url2image answers 200 only once the image is in storage,
\* written to its end.
C27_AnsweredWhenWritten ==
    [][(fetch.active /\ ~fetch'.active /\ resp'.status = 200)
          => /\ resp'.body.fileName \in Names(storage')
             /\ Entry(storage', resp'.body.fileName).data = "remote"]_vars

\* the step is the handler of one of the GET routes
IsGetStep ==
    \/ /\ resp'.route = "GET /"
       /\ \E page \in FewPageInputs : GetIndex(page)
    \/ /\ resp'.route = "GET /delete"
       /\ \E page \in FewPageInputs : GetDelete(page)
    \/ /\ resp'.route = "GET /upload"
       /\ GetUpload
    \/ /\ resp'.route = "GET /url2image"
       /\ GetUrl2image
    \/ /\ resp'.route = "GET /i"
       /\ \E fileName \in ViewInputs : GetImage(fileName)
    \/ /\ resp'.route = "GET static"
       /\ \E fileName \in ViewInputs \cup Names(storage) :
             GetStatic(fileName)

\* C29: the handler of every GET route (/, /upload, /delete, /i/:fileName,
\* /url2image and the static files) leaves the files of storage, their
\* contents and times, the files next to storage and the configured
\* credentials as they were.
C29_GetsChangeNothing ==
    [][IsGetStep
          => /\ storage' = storage
             /\ appdir' = appdir
             /\ env' = env]_vars

\* the delete form was shown after the administrator removed a file
C29_Witness ==
    /\ resp.route = "GET /delete"
    /\ resp.status = 200
    /\ \E d \in InitialDirs \cup ViewDirs :
          /\ Len(storage) < Len(d)
          /\ Names(storage) \subseteq Names(d)

\* C30: a scan of the storage directory is atomic for the rest of the
\* process: between the read of the directory and the stat of its files no
\* step of a delete, an upload or a remote fetch changes the directory, and
\* the listing is answered 200, never failing on a file that was removed
\* before it was stat-ed.
C30_ScanIsAtomic ==
    [][scan.active
          => /\ storage' = storage
             /\ ~scan'.active => resp'.status = 200]_vars

==========================================================================
